---- MODULE Spec2Model ----
(***************************************************************************)
(* Model of the library lending service of library/views.py: three         *)
(* module-level dicts (books, users, borrowed_books), two id counters and  *)
(* the four request handlers BookCreateView.post, UserCreateView.post,     *)
(* BorrowBookView.post and UserBorrowedBooksView.get.  Under Spec every    *)
(* request runs to completion before the next one starts.  SpecBorrowRace  *)
(* and SpecRegisterRace run two requests at once, one statement at a time, *)
(* as the code, which takes no lock, allows under a threaded server.       *)
(***************************************************************************)
EXTENDS Integers, Sequences, FiniteSets, TLC

\* Bounds of the model: how many books and users may be registered.
MaxBooks == 2
MaxUsers == 2

VARIABLES
    books,            \* dict  book id -> book record           (views.py:7)
    users,            \* dict  user id -> user record           (views.py:8)
    borrowed_books,   \* dict  book id -> user id, in insertion order (views.py:9)
    book_id_counter,  \* next book id                           (views.py:12)
    user_id_counter,  \* next user id                           (views.py:13)
    request,          \* the request handled last
    response,         \* the answer it got
    issuedBookIds,    \* history: ids returned by successful RegisterBook, in order
    issuedUserIds,    \* history: ids returned by successful RegisterUser, in order
    everBorrowed,     \* history: <<user id, book id>> of every successful BorrowBook
    threads           \* requests in progress when handlers interleave: the position
                      \* and the local variables of each

store == <<books, users, borrowed_books, book_id_counter, user_id_counter>>
vars == <<books, users, borrowed_books, book_id_counter, user_id_counter,
          request, response, issuedBookIds, issuedUserIds, everBorrowed, threads>>

----------------------------------------------------------------------------
\* JSON values of a request body, as request.data.get(...) returns them:
\* None for an absent key, a string, or an integer.
JNull == [t |-> "null", s |-> "", n |-> 0]
JStr(x) == [t |-> "str", s |-> x, n |-> 0]
JInt(x) == [t |-> "int", s |-> "", n |-> x]

\* Python truth value of a JSON value: None, "" and 0 are false.
Truthy(v) ==
    CASE v.t = "null" -> FALSE
      [] v.t = "str"  -> v.s # ""
      [] v.t = "int"  -> v.n # 0

\* `v in d` for a dict d whose keys are integers: a string never equals an int key.
KeyIn(v, d) == v.t = "int" /\ v.n \in DOMAIN d

\* d[k] = v on a dict with integer keys whose iteration order is not observed.
DictPut(d, k, v) == [x \in DOMAIN d \cup {k} |-> IF x = k THEN v ELSE d[x]]

\* The empty dict.
EmptyDict == [x \in {} |-> 0]

\* d[k] = v on a dict kept as the sequence of its <<key, value>> items in
\* insertion order: an existing key keeps its place and gets the new value,
\* a new key is appended.
DictSet(d, k, v) ==
    IF \E i \in 1..Len(d) : d[i][1] = k
    THEN [i \in 1..Len(d) |-> IF d[i][1] = k THEN <<k, v>> ELSE d[i]]
    ELSE Append(d, <<k, v>>)

\* The keys of such a dict.
Keys(d) == {d[i][1] : i \in 1..Len(d)}

\* Response(body, status=...)
Response(status, error, data, message) ==
    [status |-> status, error |-> error, data |-> data, message |-> message]

ErrorResponse(status, error) == Response(status, error, <<>>, <<>>)

\* The request inputs the model draws from.
Titles == {JNull, JStr(""), JStr("1984"), JStr("Emma")}
Authors == {JNull, JStr(""), JStr("Orwell")}
Names == {JNull, JStr(""), JStr("Alice")}
BorrowIds(max) == {JNull, JStr("1")} \cup {JInt(i) : i \in 0..(max + 1)}
PathIds == 0..(MaxUsers + 1)

----------------------------------------------------------------------------
\* BookCreateView.post

\* `not title or not author`
BookInvalid(title, author) == ~Truthy(title) \/ ~Truthy(author)

\* The book record built from the counter.
NewBook(id, title, author) ==
    [id |-> id, title |-> title, author |-> author, is_borrowed |-> FALSE]

\* Mutant: the counter is not advanced.
NextBookId_stuck(c) == c

\* Mutant: the counter advances by two.
NextBookId_skip(c) == c + 2

\* book_id_counter += 1
NextBookId(c) == c + 1

BookCreateView_post(title, author) ==
    /\ request' = [op |-> "RegisterBook", a |-> title, b |-> author]
    /\ IF BookInvalid(title, author)
       THEN /\ response' = ErrorResponse(400, "Title and author are required.")
            /\ UNCHANGED <<books, book_id_counter, issuedBookIds>>
       ELSE /\ book_id_counter <= MaxBooks
            /\ books' = DictPut(books, book_id_counter,
                                NewBook(book_id_counter, title, author))
            /\ book_id_counter' = NextBookId(book_id_counter)
            /\ response' = Response(201, "",
                               <<NewBook(book_id_counter, title, author)>>, <<>>)
            /\ issuedBookIds' = Append(issuedBookIds, response'.data[1].id)
    /\ UNCHANGED <<users, borrowed_books, user_id_counter, issuedUserIds, everBorrowed>>

----------------------------------------------------------------------------
\* UserCreateView.post

\* `not name`
UserInvalid(name) == ~Truthy(name)

NewUser(id, name) == [id |-> id, name |-> name]

\* user_id_counter += 1
NextUserId(c) == c + 1

\* Mutant: users take their ids from the book counter.
UserCreateView_post_sharedCounter(name) ==
    /\ request' = [op |-> "RegisterUser", a |-> name, b |-> JNull]
    /\ IF UserInvalid(name)
       THEN /\ response' = ErrorResponse(400, "Name is required.")
            /\ UNCHANGED <<users, book_id_counter, issuedUserIds>>
       ELSE /\ book_id_counter <= MaxBooks
            /\ users' = DictPut(users, book_id_counter, NewUser(book_id_counter, name))
            /\ book_id_counter' = book_id_counter + 1
            /\ response' = Response(201, "", <<NewUser(book_id_counter, name)>>, <<>>)
            /\ issuedUserIds' = Append(issuedUserIds, response'.data[1].id)
    /\ UNCHANGED <<books, borrowed_books, user_id_counter, issuedBookIds, everBorrowed>>

UserCreateView_post(name) ==
    /\ request' = [op |-> "RegisterUser", a |-> name, b |-> JNull]
    /\ IF UserInvalid(name)
       THEN /\ response' = ErrorResponse(400, "Name is required.")
            /\ UNCHANGED <<users, user_id_counter, issuedUserIds>>
       ELSE /\ user_id_counter <= MaxUsers
            /\ users' = DictPut(users, user_id_counter, NewUser(user_id_counter, name))
            /\ user_id_counter' = NextUserId(user_id_counter)
            /\ response' = Response(201, "", <<NewUser(user_id_counter, name)>>, <<>>)
            /\ issuedUserIds' = Append(issuedUserIds, response'.data[1].id)
    /\ UNCHANGED <<books, borrowed_books, book_id_counter, issuedBookIds, everBorrowed>>

----------------------------------------------------------------------------
\* BorrowBookView.post

\* Mutant: the availability check is left out.
BorrowCheck_noConflict(user_id, book_id) ==
    IF ~Truthy(user_id) \/ ~Truthy(book_id) THEN "userId and bookId are required."
    ELSE IF ~KeyIn(user_id, users) THEN "User not found."
    ELSE IF ~KeyIn(book_id, books) THEN "Book not found."
    ELSE ""

\* Mutant: the book is looked up before the user.
BorrowCheck_bookFirst(user_id, book_id) ==
    IF ~Truthy(user_id) \/ ~Truthy(book_id) THEN "userId and bookId are required."
    ELSE IF ~KeyIn(book_id, books) THEN "Book not found."
    ELSE IF books[book_id.n].is_borrowed THEN "Book is already borrowed."
    ELSE IF ~KeyIn(user_id, users) THEN "User not found."
    ELSE ""

\* Mutant: the user is not looked up.
BorrowCheck_noUserCheck(user_id, book_id) ==
    IF ~Truthy(user_id) \/ ~Truthy(book_id) THEN "userId and bookId are required."
    ELSE IF ~KeyIn(book_id, books) THEN "Book not found."
    ELSE IF books[book_id.n].is_borrowed THEN "Book is already borrowed."
    ELSE ""

\* Mutant: a borrowed book is refused only to the user who holds it.
BorrowCheck_takeover(user_id, book_id) ==
    IF ~Truthy(user_id) \/ ~Truthy(book_id) THEN "userId and bookId are required."
    ELSE IF ~KeyIn(user_id, users) THEN "User not found."
    ELSE IF ~KeyIn(book_id, books) THEN "Book not found."
    ELSE IF \E i \in 1..Len(borrowed_books) :
                borrowed_books[i] = <<book_id.n, user_id.n>>
         THEN "Book is already borrowed."
    ELSE ""

\* Mutant: a user who already holds a book is refused any other.
BorrowCheck_oneBookPerUser(user_id, book_id) ==
    IF ~Truthy(user_id) \/ ~Truthy(book_id) THEN "userId and bookId are required."
    ELSE IF ~KeyIn(user_id, users) THEN "User not found."
    ELSE IF ~KeyIn(book_id, books) THEN "Book not found."
    ELSE IF books[book_id.n].is_borrowed
            \/ \E i \in 1..Len(borrowed_books) : borrowed_books[i][2] = user_id.n
         THEN "Book is already borrowed."
    ELSE ""

\* The checks of the handler in the order the code makes them: the error
\* message of the first one that fails, or "" when all pass.
BorrowCheck(user_id, book_id) ==
    IF ~Truthy(user_id) \/ ~Truthy(book_id) THEN "userId and bookId are required."
    ELSE IF ~KeyIn(user_id, users) THEN "User not found."
    ELSE IF ~KeyIn(book_id, books) THEN "Book not found."
    ELSE IF books[book_id.n].is_borrowed THEN "Book is already borrowed."
    ELSE ""

\* The status the handler gives each of its errors.
BorrowStatus(error) ==
    CASE error = "userId and bookId are required." -> 400
      [] error = "User not found."                 -> 404
      [] error = "Book not found."                 -> 404
      [] error = "Book is already borrowed."       -> 400
      [] OTHER                                     -> 200

\* Mutant: the flag is not set.
MarkBorrowed_noop(bs, b) == bs

\* Mutant: the flag is set on every stored book.
MarkBorrowed_all(bs, b) == [x \in DOMAIN bs |-> [bs[x] EXCEPT !.is_borrowed = TRUE]]

\* book['is_borrowed'] = True, on the record stored in books
MarkBorrowed(bs, b) ==
    IF b \in DOMAIN bs THEN [bs EXCEPT ![b].is_borrowed = TRUE] ELSE bs

\* The names the confirmation message quotes.
BorrowMessage(u, b) ==
    << IF b \in DOMAIN books THEN books[b].title ELSE JNull,
       IF u \in DOMAIN users THEN users[u].name ELSE JNull >>

\* Mutant: the assignment is written before the availability check.
BorrowBookView_post_assignFirst(user_id, book_id) ==
    /\ request' = [op |-> "BorrowBook", a |-> user_id, b |-> book_id]
    /\ IF BorrowCheck(user_id, book_id) # ""
       THEN /\ response' = ErrorResponse(BorrowStatus(BorrowCheck(user_id, book_id)),
                                         BorrowCheck(user_id, book_id))
            /\ borrowed_books' =
                   IF BorrowCheck(user_id, book_id) = "Book is already borrowed."
                   THEN DictSet(borrowed_books, book_id.n, user_id.n)
                   ELSE borrowed_books
            /\ UNCHANGED <<books, everBorrowed>>
       ELSE /\ books' = MarkBorrowed(books, book_id.n)
            /\ borrowed_books' = DictSet(borrowed_books, book_id.n, user_id.n)
            /\ response' = Response(200, "", <<>>, BorrowMessage(user_id.n, book_id.n))
            /\ everBorrowed' = everBorrowed \cup {<<user_id.n, book_id.n>>}
    /\ UNCHANGED <<users, book_id_counter, user_id_counter, issuedBookIds, issuedUserIds>>

BorrowBookView_post(user_id, book_id) ==
    /\ request' = [op |-> "BorrowBook", a |-> user_id, b |-> book_id]
    /\ IF BorrowCheck(user_id, book_id) # ""
       THEN /\ response' = ErrorResponse(BorrowStatus(BorrowCheck(user_id, book_id)),
                                         BorrowCheck(user_id, book_id))
            /\ UNCHANGED <<books, borrowed_books, everBorrowed>>
       ELSE /\ books' = MarkBorrowed(books, book_id.n)
            /\ borrowed_books' = DictSet(borrowed_books, book_id.n, user_id.n)
            /\ response' = Response(200, "", <<>>, BorrowMessage(user_id.n, book_id.n))
            /\ everBorrowed' = everBorrowed \cup {<<user_id.n, book_id.n>>}
    /\ UNCHANGED <<users, book_id_counter, user_id_counter, issuedBookIds, issuedUserIds>>

----------------------------------------------------------------------------
\* UserBorrowedBooksView.get

\* Mutant: the comprehension compares the key, not the value, with user_id.
HeldItems_byKey(user_id) == SelectSeq(borrowed_books, LAMBDA p : p[1] = user_id)

\* Mutant: the comprehension has no condition.
HeldItems_all(user_id) == borrowed_books

\* The items of borrowed_books the comprehension keeps: `if uid == user_id`.
HeldItems(user_id) == SelectSeq(borrowed_books, LAMBDA p : p[2] = user_id)

\* books[book_id] raises KeyError for one of the kept items.
ResolveFails(user_id) ==
    \E i \in 1..Len(HeldItems(user_id)) : HeldItems(user_id)[i][1] \notin DOMAIN books

\* [books[book_id] for book_id, uid in borrowed_books.items() if uid == user_id]
ListBorrowedBooks(user_id) ==
    [i \in 1..Len(HeldItems(user_id)) |-> books[HeldItems(user_id)[i][1]]]

\* Mutant: a user who holds nothing is answered like an unknown user.
UserBorrowedBooksResponse_emptyIs404(user_id) ==
    IF user_id \notin DOMAIN users \/ HeldItems(user_id) = <<>>
    THEN ErrorResponse(404, "User not found.")
    ELSE Response(200, "", ListBorrowedBooks(user_id), <<>>)

UserBorrowedBooksResponse(user_id) ==
    IF user_id \notin DOMAIN users THEN ErrorResponse(404, "User not found.")
    ELSE IF ResolveFails(user_id) THEN ErrorResponse(500, "KeyError")
    ELSE Response(200, "", ListBorrowedBooks(user_id), <<>>)

UserBorrowedBooksView_get(user_id) ==
    /\ request' = [op |-> "ListBorrowedBooks", a |-> JInt(user_id), b |-> JNull]
    /\ response' = UserBorrowedBooksResponse(user_id)
    /\ UNCHANGED <<store, issuedBookIds, issuedUserIds, everBorrowed>>

----------------------------------------------------------------------------
\* The two requests that may be in progress at once.
Threads == {1, 2}

\* A request not yet received: no position, no locals.
IdleThread ==
    [pc |-> "idle", op |-> "none", a |-> JNull, b |-> JNull, rec |-> <<>>, tmp |-> 0,
     resp |-> Response(0, "", <<>>, <<>>), before |-> {}]

Init ==
    /\ books = EmptyDict
    /\ users = EmptyDict
    /\ borrowed_books = <<>>
    /\ book_id_counter = 1
    /\ user_id_counter = 1
    /\ request = [op |-> "none", a |-> JNull, b |-> JNull]
    /\ response = Response(0, "", <<>>, <<>>)
    /\ issuedBookIds = <<>>
    /\ issuedUserIds = <<>>
    /\ everBorrowed = {}
    /\ threads = [t \in Threads |-> IdleThread]

RegisterBook ==
    /\ \E title \in Titles, author \in Authors : BookCreateView_post(title, author)
    /\ UNCHANGED threads
RegisterUser ==
    /\ \E name \in Names : UserCreateView_post(name)
    /\ UNCHANGED threads
BorrowBook ==
    /\ \E user_id \in BorrowIds(MaxUsers), book_id \in BorrowIds(MaxBooks) :
          BorrowBookView_post(user_id, book_id)
    /\ UNCHANGED threads
ListBorrowed ==
    /\ \E user_id \in PathIds : UserBorrowedBooksView_get(user_id)
    /\ UNCHANGED threads

Next == RegisterBook \/ RegisterUser \/ BorrowBook \/ ListBorrowed

Spec == Init /\ [][Next]_vars

----------------------------------------------------------------------------
\* Two BorrowBook requests whose statements interleave.  The handler takes no
\* lock, so between any two of its statements the other request may run.  The
\* answers are kept in threads; request, response and the histories of the
\* sequential runs are left alone.

history == <<request, response, issuedBookIds, issuedUserIds, everBorrowed>>

\* The ids a racing BorrowBook request may name: stored ones and an unknown one.
RaceIds(d) == {JInt(i) : i \in DOMAIN d} \cup {JInt(Cardinality(DOMAIN d) + 1)}

\* The other requests that have already executed book['is_borrowed'] = True
\* on book b.
MarkedBy(t, b) ==
    {o \in Threads \ {t} :
        /\ threads[o].op = "BorrowBook" /\ threads[o].b = b
        /\ \/ threads[o].pc = "assign"
           \/ threads[o].pc = "done" /\ threads[o].resp.status = 200}

\* user_id = request.data.get('userId'); book_id = request.data.get('bookId')
BorrowReceive(t, user_id, book_id) ==
    /\ threads[t].pc = "idle"
    /\ threads' = [threads EXCEPT ![t] =
           [@ EXCEPT !.pc = "check", !.op = "BorrowBook", !.a = user_id, !.b = book_id]]
    /\ UNCHANGED <<store, history>>

\* The validation, the two lookups and the read of book['is_borrowed'].
BorrowCheckStep(t) ==
    /\ threads[t].pc = "check" /\ threads[t].op = "BorrowBook"
    /\ LET error == BorrowCheck(threads[t].a, threads[t].b)
       IN  threads' = [threads EXCEPT ![t] =
               IF error # ""
               THEN [@ EXCEPT !.pc = "done",
                              !.resp = ErrorResponse(BorrowStatus(error), error),
                              !.before = MarkedBy(t, threads[t].b)]
               ELSE [@ EXCEPT !.pc = "mark", !.before = MarkedBy(t, threads[t].b)]]
    /\ UNCHANGED <<store, history>>

\* book['is_borrowed'] = True
BorrowMarkStep(t) ==
    /\ threads[t].pc = "mark"
    /\ books' = MarkBorrowed(books, threads[t].b.n)
    /\ threads' = [threads EXCEPT ![t].pc = "assign"]
    /\ UNCHANGED <<users, borrowed_books, book_id_counter, user_id_counter, history>>

\* borrowed_books[book_id] = user_id, and the confirmation
BorrowAssignStep(t) ==
    /\ threads[t].pc = "assign"
    /\ borrowed_books' = DictSet(borrowed_books, threads[t].b.n, threads[t].a.n)
    /\ threads' = [threads EXCEPT ![t] =
           [@ EXCEPT !.pc = "done",
                     !.resp = Response(200, "", <<>>,
                                  BorrowMessage(threads[t].a.n, threads[t].b.n))]]
    /\ UNCHANGED <<books, users, book_id_counter, user_id_counter, history>>

\* The service with two users and two books registered and nothing borrowed,
\* as RegisterUser, RegisterUser, RegisterBook, RegisterBook leave it.
BorrowRaceInit ==
    /\ books = DictPut(DictPut(EmptyDict, 1, NewBook(1, JStr("1984"), JStr("Orwell"))),
                       NextBookId(1), NewBook(NextBookId(1), JStr("Emma"), JStr("Orwell")))
    /\ users = DictPut(DictPut(EmptyDict, 1, NewUser(1, JStr("Alice"))),
                       NextUserId(1), NewUser(NextUserId(1), JStr("Alice")))
    /\ borrowed_books = <<>>
    /\ book_id_counter = NextBookId(NextBookId(1))
    /\ user_id_counter = NextUserId(NextUserId(1))
    /\ request = [op |-> "RegisterBook", a |-> JStr("Emma"), b |-> JStr("Orwell")]
    /\ response = Response(201, "",
                      <<NewBook(NextBookId(1), JStr("Emma"), JStr("Orwell"))>>, <<>>)
    /\ issuedBookIds = <<1, NextBookId(1)>>
    /\ issuedUserIds = <<1, NextUserId(1)>>
    /\ everBorrowed = {}
    /\ threads = [t \in Threads |-> IdleThread]

BorrowRaceNext ==
    \E t \in Threads :
        \/ \E user_id \in RaceIds(users), book_id \in RaceIds(books) :
              BorrowReceive(t, user_id, book_id)
        \/ BorrowCheckStep(t)
        \/ BorrowMarkStep(t)
        \/ BorrowAssignStep(t)

SpecBorrowRace == BorrowRaceInit /\ [][BorrowRaceNext]_vars

----------------------------------------------------------------------------
\* Two registration requests (RegisterBook or RegisterUser) whose statements
\* interleave.  Building the record reads the counter, storing it reads the
\* counter again, and `counter += 1` reads the counter and then writes it.

\* The counter and the dict a registration of kind op works on.
CounterOf(op) == IF op = "RegisterBook" THEN book_id_counter ELSE user_id_counter
DictOf(op) == IF op = "RegisterBook" THEN books ELSE users

\* The other requests of the same kind that have already finished their
\* `counter += 1`.
IncrementedBy(t) ==
    {o \in Threads \ {t} :
        /\ threads[o].op = threads[t].op
        /\ threads[o].pc = "done" /\ threads[o].resp.status = 201}

\* title, author = request.data.get(...)  /  name = request.data.get('name')
RegisterReceive(t, op, a, b) ==
    /\ threads[t].pc = "idle"
    /\ threads' = [threads EXCEPT ![t] =
           [@ EXCEPT !.pc = "validate", !.op = op, !.a = a, !.b = b]]
    /\ UNCHANGED <<store, history>>

\* if not title or not author  /  if not name
RegisterValidate(t) ==
    /\ threads[t].pc = "validate"
    /\ threads' = [threads EXCEPT ![t] =
           IF threads[t].op = "RegisterBook"
           THEN IF BookInvalid(threads[t].a, threads[t].b)
                THEN [@ EXCEPT !.pc = "done",
                         !.resp = ErrorResponse(400, "Title and author are required.")]
                ELSE [@ EXCEPT !.pc = "build"]
           ELSE IF UserInvalid(threads[t].a)
                THEN [@ EXCEPT !.pc = "done",
                         !.resp = ErrorResponse(400, "Name is required.")]
                ELSE [@ EXCEPT !.pc = "build"]]
    /\ UNCHANGED <<store, history>>

\* book = {"id": book_id_counter, ...}  /  user = {"id": user_id_counter, ...}
RegisterBuild(t) ==
    /\ threads[t].pc = "build"
    /\ threads' = [threads EXCEPT ![t] =
           [@ EXCEPT !.pc = "store",
                     !.before = IncrementedBy(t),
                     !.rec = IF threads[t].op = "RegisterBook"
                             THEN <<NewBook(book_id_counter, threads[t].a, threads[t].b)>>
                             ELSE <<NewUser(user_id_counter, threads[t].a)>>]]
    /\ UNCHANGED <<store, history>>

\* books[book_id_counter] = book  /  users[user_id_counter] = user
RegisterStore(t) ==
    /\ threads[t].pc = "store"
    /\ IF threads[t].op = "RegisterBook"
       THEN /\ books' = DictPut(books, book_id_counter, threads[t].rec[1])
            /\ UNCHANGED users
       ELSE /\ users' = DictPut(users, user_id_counter, threads[t].rec[1])
            /\ UNCHANGED books
    /\ threads' = [threads EXCEPT ![t].pc = "load"]
    /\ UNCHANGED <<borrowed_books, book_id_counter, user_id_counter, history>>

\* `counter += 1`, the read of the counter
RegisterLoad(t) ==
    /\ threads[t].pc = "load"
    /\ threads' = [threads EXCEPT ![t] =
           [@ EXCEPT !.pc = "incr", !.tmp = CounterOf(threads[t].op)]]
    /\ UNCHANGED <<store, history>>

\* `counter += 1`, the write of the counter, and the answer
RegisterIncrement(t) ==
    /\ threads[t].pc = "incr"
    /\ IF threads[t].op = "RegisterBook"
       THEN /\ book_id_counter' = NextBookId(threads[t].tmp)
            /\ UNCHANGED user_id_counter
       ELSE /\ user_id_counter' = NextUserId(threads[t].tmp)
            /\ UNCHANGED book_id_counter
    /\ threads' = [threads EXCEPT ![t] =
           [@ EXCEPT !.pc = "done", !.resp = Response(201, "", threads[t].rec, <<>>)]]
    /\ UNCHANGED <<books, users, borrowed_books, history>>

RegisterRaceNext ==
    \E t \in Threads :
        \/ \E title \in Titles, author \in Authors :
              RegisterReceive(t, "RegisterBook", title, author)
        \/ \E name \in Names : RegisterReceive(t, "RegisterUser", name, JNull)
        \/ RegisterValidate(t)
        \/ RegisterBuild(t)
        \/ RegisterStore(t)
        \/ RegisterLoad(t)
        \/ RegisterIncrement(t)

\* A fresh process receives the two requests.
SpecRegisterRace == Init /\ [][RegisterRaceNext]_vars

----------------------------------------------------------------------------
\* Vocabulary of the properties.

\* The last step handled a request of kind op (in the state after the step).
Handled(op) == request.op = op

\* The ids of the books in a response body.
BookIdsOf(data) == {data[i].id : i \in 1..Len(data)}

\* How often book id b occurs in a response body.
Occurrences(data, b) == Cardinality({i \in 1..Len(data) : data[i].id = b})

\* The user the assignments record as holder of book b.
HolderOf(b) == (CHOOSE i \in 1..Len(borrowed_books) : borrowed_books[i][1] = b)

----------------------------------------------------------------------------
\* C1: in every reachable state a book id is a key of borrowed_books if and
\* only if it is the id of a stored book whose is_borrowed is true.
C1_AssignedIffBorrowed ==
    \A b \in DOMAIN books \cup Keys(borrowed_books) :
        (b \in Keys(borrowed_books)) <=> (b \in DOMAIN books /\ books[b].is_borrowed)

\* A BorrowBook has just succeeded, one book is assigned and another is not.
C1_Witness ==
    /\ Handled("BorrowBook") /\ response.status = 200
    /\ \E b1, b2 \in DOMAIN books :
          /\ b1 \in Keys(borrowed_books) /\ books[b1].is_borrowed
          /\ b2 \notin Keys(borrowed_books) /\ ~books[b2].is_borrowed

\* C2: a BorrowBook by a registered user on a book that is already borrowed
\* answers 400 "Book is already borrowed.", whoever asks, and leaves the
\* assignment and all other state unchanged.
C2_BorrowedBookConflicts ==
    [][ ( /\ request'.op = "BorrowBook"
          /\ KeyIn(request'.a, users)
          /\ KeyIn(request'.b, books)
          /\ books[request'.b.n].is_borrowed )
        => /\ response' = ErrorResponse(400, "Book is already borrowed.")
           /\ UNCHANGED store
           /\ UNCHANGED everBorrowed ]_vars

\* A registered user who is not the holder has just been refused a borrowed book.
C2_Witness ==
    /\ Handled("BorrowBook")
    /\ response = ErrorResponse(400, "Book is already borrowed.")
    /\ KeyIn(request.a, users)
    /\ request.b.n \in Keys(borrowed_books)
    /\ borrowed_books[HolderOf(request.b.n)][2] # request.a.n

\* C3: BorrowBook answers the error of the first failed check in the order
\* (1) both ids given (the handler's test: neither is None, "" or 0),
\* (2) user exists, (3) book exists, (4) book not borrowed.  So an unknown user
\* is reported whatever the book is (unknown or already borrowed), and an
\* absent id is a validation error whatever the other id is.
C3_FirstFailedCheck ==
    [][ request'.op = "BorrowBook" =>
        LET u == request'.a
            b == request'.b
            given == Truthy(u) /\ Truthy(b)
        IN  /\ (u = JNull \/ b = JNull) =>
                  response' = ErrorResponse(400, "userId and bookId are required.")
            /\ ~given => response' = ErrorResponse(400, "userId and bookId are required.")
            /\ (given /\ ~KeyIn(u, users)) =>
                  response' = ErrorResponse(404, "User not found.")
            /\ (given /\ KeyIn(u, users) /\ ~KeyIn(b, books)) =>
                  response' = ErrorResponse(404, "Book not found.")
            /\ (given /\ KeyIn(u, users) /\ KeyIn(b, books) /\ books[b.n].is_borrowed) =>
                  response' = ErrorResponse(400, "Book is already borrowed.")
            /\ (given /\ KeyIn(u, users) /\ KeyIn(b, books) /\ ~books[b.n].is_borrowed) =>
                  response'.status = 200
            /\ response'.error = "Book not found." => KeyIn(u, users)
            /\ response'.error = "Book is already borrowed." => KeyIn(u, users)
      ]_vars

\* An unknown user has just asked for a book that is already borrowed and was
\* told "User not found.".
C3_Witness ==
    /\ Handled("BorrowBook")
    /\ response = ErrorResponse(404, "User not found.")
    /\ ~KeyIn(request.a, users)
    /\ KeyIn(request.b, books)
    /\ books[request.b.n].is_borrowed

\* C4: once BorrowBook(u, b) has succeeded, in every later state
\* ListBorrowedBooks(u) succeeds and lists book b exactly once, and the list of
\* a registered user holds no book that user never successfully borrowed.
C4_ListedIffBorrowed ==
    /\ \A p \in everBorrowed :
          /\ UserBorrowedBooksResponse(p[1]).status = 200
          /\ Occurrences(UserBorrowedBooksResponse(p[1]).data, p[2]) = 1
    /\ \A u \in DOMAIN users :
          \A b \in BookIdsOf(UserBorrowedBooksResponse(u).data) : <<u, b>> \in everBorrowed
    /\ (Handled("ListBorrowedBooks") /\ response.status = 200) =>
          /\ \A b \in BookIdsOf(response.data) : <<request.a.n, b>> \in everBorrowed
          /\ \A p \in everBorrowed :
                p[1] = request.a.n => Occurrences(response.data, p[2]) = 1

\* A user who borrowed a book while another user holds another book has just
\* been listed exactly that one book.
C4_Witness ==
    /\ Handled("ListBorrowedBooks") /\ response.status = 200
    /\ Len(response.data) = 1
    /\ Len(borrowed_books) = 2
    /\ \E p \in everBorrowed : p[1] # request.a.n

\* C5: a book has at most one borrower: borrowed_books holds each book id at
\* most once, and the lists of two distinct users share no book.
C5_AtMostOneBorrower ==
    /\ Cardinality(Keys(borrowed_books)) = Len(borrowed_books)
    /\ \A u1, u2 \in DOMAIN users :
          u1 # u2 =>
             BookIdsOf(UserBorrowedBooksResponse(u1).data)
                \cap BookIdsOf(UserBorrowedBooksResponse(u2).data) = {}

\* Two users hold a book each.
C5_Witness ==
    \E u1, u2 \in DOMAIN users :
        /\ u1 # u2
        /\ BookIdsOf(UserBorrowedBooksResponse(u1).data) # {}
        /\ BookIdsOf(UserBorrowedBooksResponse(u2).data) # {}

\* C6: a RegisterBook with a title and an author succeeds with a book whose id
\* is 1 for the first and the previous id plus one afterwards, hence greater
\* than every id issued before, with is_borrowed false, stored under that id;
\* a RegisterBook without title or author answers 400, stores nothing and
\* leaves the counter alone.
C6_BookIdsIncrease ==
    [][ request'.op = "RegisterBook" =>
        IF BookInvalid(request'.a, request'.b)
        THEN /\ response' = ErrorResponse(400, "Title and author are required.")
             /\ UNCHANGED <<books, book_id_counter, issuedBookIds>>
        ELSE /\ response'.status = 201
             /\ LET book == response'.data[1]
                IN  /\ book.id = IF issuedBookIds = <<>> THEN 1
                                 ELSE issuedBookIds[Len(issuedBookIds)] + 1
                    /\ \A i \in 1..Len(issuedBookIds) : book.id > issuedBookIds[i]
                    /\ book.id \notin DOMAIN books
                    /\ book.is_borrowed = FALSE
                    /\ book.title = request'.a /\ book.author = request'.b
                    /\ books' = DictPut(books, book.id, book)
      ]_vars

\* The second book has just been registered.
C6_Witness ==
    /\ Handled("RegisterBook") /\ response.status = 201
    /\ response.data[1].id = 2
    /\ issuedBookIds = <<1, 2>>

\* C7: a RegisterUser with a name succeeds with a user whose id is 1 for the
\* first and the previous id plus one afterwards, hence greater than every id
\* issued before; RegisterBook never changes user_id_counter and RegisterUser
\* never changes book_id_counter.
C7_UserIdsIncreaseIndependently ==
    [][ /\ request'.op = "RegisterUser" =>
            /\ book_id_counter' = book_id_counter
            /\ ~UserInvalid(request'.a) =>
                  /\ response'.status = 201
                  /\ LET user == response'.data[1]
                     IN  /\ user.id = IF issuedUserIds = <<>> THEN 1
                                      ELSE issuedUserIds[Len(issuedUserIds)] + 1
                         /\ \A i \in 1..Len(issuedUserIds) : user.id > issuedUserIds[i]
                         /\ user.id \notin DOMAIN users
                         /\ users' = DictPut(users, user.id, user)
        /\ request'.op = "RegisterBook" => user_id_counter' = user_id_counter
      ]_vars

\* The second user has just been registered, after a single book.
C7_Witness ==
    /\ Handled("RegisterUser") /\ response.status = 201
    /\ response.data[1].id = 2
    /\ issuedBookIds = <<1>>

\* C8: a request answered with an error (status 400 or 404) leaves books,
\* users, borrowed_books and both counters as they were; a BorrowBook without
\* bookId is answered 400.
C8_ErrorsChangeNothing ==
    [][ /\ response'.status >= 400 => UNCHANGED store
        /\ (request'.op = "BorrowBook" /\ request'.b = JNull) => response'.status = 400
      ]_vars

\* A BorrowBook without bookId has just been refused while a book is on loan.
C8_Witness ==
    /\ Handled("BorrowBook")
    /\ request.b = JNull /\ KeyIn(request.a, users)
    /\ response.status = 400
    /\ borrowed_books # <<>>

\* C9: ListBorrowedBooks(u) answers 404 "User not found." exactly when u is
\* not a registered user, whatever is borrowed; for a registered user it
\* answers 200, with the empty list when the user holds nothing.
C9_ListNotFoundIffUnknown ==
    /\ \A u \in PathIds :
          /\ UserBorrowedBooksResponse(u).status = 404 <=> u \notin DOMAIN users
          /\ u \in DOMAIN users => UserBorrowedBooksResponse(u).status = 200
    /\ Handled("ListBorrowedBooks") =>
          /\ response.status = 404 <=> request.a.n \notin DOMAIN users
          /\ request.a.n \notin DOMAIN users =>
                response = ErrorResponse(404, "User not found.")
          /\ request.a.n \in DOMAIN users =>
                /\ response.status = 200
                /\ (\A i \in 1..Len(borrowed_books) :
                        borrowed_books[i][2] # request.a.n) => response.data = <<>>

\* A registered user who holds nothing has just been listed, while another
\* user holds a book.
C9_Witness ==
    /\ Handled("ListBorrowedBooks")
    /\ request.a.n \in DOMAIN users
    /\ response = Response(200, "", <<>>, <<>>)
    /\ borrowed_books # <<>>

\* C10: every key of borrowed_books is the id of a stored book and every value
\* the id of a stored user, and resolving the assignments in ListBorrowedBooks
\* never fails.
C10_ReferentialIntegrity ==
    /\ \A i \in 1..Len(borrowed_books) :
          /\ borrowed_books[i][1] \in DOMAIN books
          /\ borrowed_books[i][2] \in DOMAIN users
    /\ \A u \in PathIds : ~ResolveFails(u)
    /\ response.status # 500

\* A user holding two books has just been listed both.
C10_Witness ==
    /\ Handled("ListBorrowedBooks") /\ response.status = 200
    /\ Len(response.data) = 2
    /\ Len(borrowed_books) = 2

\* C11: the lifecycle of a book is one-way: no step removes a book or turns
\* is_borrowed from true to false, and no step removes an item of
\* borrowed_books or changes the user it records.
C11_BorrowedForever ==
    [][ /\ \A b \in DOMAIN books :
              /\ b \in DOMAIN books'
              /\ books[b].is_borrowed => books'[b].is_borrowed
        /\ \A i \in 1..Len(borrowed_books) :
              \E j \in 1..Len(borrowed_books') : borrowed_books'[j] = borrowed_books[i]
      ]_vars

\* A second book has just been borrowed, by another user than the one who
\* holds the first; the first assignment is still there.
C11_Witness ==
    /\ Handled("BorrowBook") /\ response.status = 200
    /\ Len(borrowed_books) = 2
    /\ borrowed_books[2][1] = request.b.n
    /\ borrowed_books[1][2] # request.a.n
    /\ books[borrowed_books[1][1]].is_borrowed

\* C12: a BorrowBook by a registered user on a stored book that is not
\* borrowed answers 200 with the message naming the book's title and the
\* user's name, and afterwards the book's is_borrowed is true and
\* borrowed_books maps the book to that user; books the user already holds do
\* not matter.
C12_BorrowSucceeds ==
    [][ ( /\ request'.op = "BorrowBook"
          /\ KeyIn(request'.a, users)
          /\ KeyIn(request'.b, books)
          /\ ~books[request'.b.n].is_borrowed )
        => LET u == request'.a.n
               b == request'.b.n
           IN  /\ response' = Response(200, "", <<>>, <<books[b].title, users[u].name>>)
               /\ books'[b].is_borrowed
               /\ \E j \in 1..Len(borrowed_books') : borrowed_books'[j] = <<b, u>>
               /\ \A j \in 1..Len(borrowed_books') :
                     borrowed_books'[j][1] = b => borrowed_books'[j][2] = u
      ]_vars

\* A user has just borrowed a second book.
C12_Witness ==
    /\ Handled("BorrowBook") /\ response.status = 200
    /\ Len(HeldItems(request.a.n)) = 2

\* C13: a successful BorrowBook(u, b) changes only is_borrowed of book b and
\* adds the item for b to borrowed_books: every other book, every other item,
\* users and both counters stay as they were.  ListBorrowedBooks changes no
\* state.  No step changes the id, title or author of a stored book or a
\* stored user, or removes a book or a user.
C13_Frame ==
    [][ /\ (request'.op = "BorrowBook" /\ response'.status = 200) =>
              LET b == request'.b.n
              IN  /\ DOMAIN books' = DOMAIN books
                  /\ \A x \in DOMAIN books \ {b} : books'[x] = books[x]
                  /\ books'[b] = [books[b] EXCEPT !.is_borrowed = TRUE]
                  /\ Len(borrowed_books') = Len(borrowed_books) + 1
                  /\ \A i \in 1..Len(borrowed_books) :
                        borrowed_books'[i] = borrowed_books[i]
                  /\ borrowed_books'[Len(borrowed_books')][1] = b
                  /\ UNCHANGED <<users, book_id_counter, user_id_counter>>
        /\ request'.op = "ListBorrowedBooks" => UNCHANGED store
        /\ \A x \in DOMAIN books :
              /\ x \in DOMAIN books'
              /\ books'[x].id = books[x].id
              /\ books'[x].title = books[x].title
              /\ books'[x].author = books[x].author
        /\ \A u \in DOMAIN users : u \in DOMAIN users' /\ users'[u] = users[u]
      ]_vars

\* One of two books with different titles has just been borrowed; the other
\* is not borrowed.
C13_Witness ==
    /\ Handled("BorrowBook") /\ response.status = 200
    /\ Len(borrowed_books) = 1
    /\ \E x \in DOMAIN books :
          /\ x # request.b.n
          /\ ~books[x].is_borrowed
          /\ books[x].title # books[request.b.n].title

\* C14 (as claimed): a BorrowBook whose userId and bookId are both integers
\* answers 404 "User not found." whenever userId is not the id of a registered
\* user, 0 included, and 404 "Book not found." whenever the user is registered
\* and bookId is not the id of a stored book, 0 included.
C14_IntegerIdsNotFound ==
    [][ ( /\ request'.op = "BorrowBook"
          /\ request'.a.t = "int"
          /\ request'.b.t = "int" )
        => /\ request'.a.n \notin DOMAIN users =>
                 response' = ErrorResponse(404, "User not found.")
           /\ (request'.a.n \in DOMAIN users /\ request'.b.n \notin DOMAIN books) =>
                 response' = ErrorResponse(404, "Book not found.")
      ]_vars

\* C17: the keys of books are exactly 1 .. book_id_counter - 1 and the record
\* under key k has id k, likewise for users and user_id_counter; so there are
\* as many stored books (users) as successful RegisterBook (RegisterUser)
\* requests.
C17_KeysAreOneToCounter ==
    /\ DOMAIN books = 1..(book_id_counter - 1)
    /\ \A k \in DOMAIN books : books[k].id = k
    /\ DOMAIN users = 1..(user_id_counter - 1)
    /\ \A k \in DOMAIN users : users[k].id = k
    /\ Cardinality(DOMAIN books) = Len(issuedBookIds)
    /\ Cardinality(DOMAIN users) = Len(issuedUserIds)

\* Two books and one user are stored and a RegisterBook has just been refused.
C17_Witness ==
    /\ Handled("RegisterBook") /\ response.status = 400
    /\ DOMAIN books = {1, 2}
    /\ DOMAIN users = {1}

\* Both racing requests are BorrowBook requests by registered users for the
\* same stored book (available when they were received), and both have answered.
SameBookRaceDone ==
    /\ \A t \in Threads :
          /\ threads[t].op = "BorrowBook" /\ threads[t].pc = "done"
          /\ KeyIn(threads[t].a, users)
          /\ KeyIn(threads[t].b, books)
    /\ \A t, o \in Threads : threads[t].b = threads[o].b

\* C15 (as claimed): of two interleaved BorrowBook requests for the same
\* available book exactly one answers 200, the other answers 400 "Book is
\* already borrowed.", and borrowed_books records the user of the one that
\* succeeded.
C15_OnlyOneBorrowSucceeds ==
    SameBookRaceDone =>
        \E w \in Threads :
            /\ threads[w].resp.status = 200
            /\ \A o \in Threads \ {w} :
                  threads[o].resp = ErrorResponse(400, "Book is already borrowed.")
            /\ \E i \in 1..Len(borrowed_books) :
                  borrowed_books[i] = <<threads[w].b.n, threads[w].a.n>>

\* C15 (amended): of two interleaved BorrowBook requests for the same
\* available book, a request answers 200 exactly when it read is_borrowed
\* before the other request wrote it, and 400 "Book is already borrowed."
\* otherwise; so at least one succeeds, both may, and borrowed_books records
\* the book once, with the user of a request that succeeded.
C15_BorrowSucceedsIffReadFirst ==
    SameBookRaceDone =>
        /\ \A t \in Threads :
              /\ threads[t].resp.status = 200 <=> threads[t].before = {}
              /\ threads[t].before # {} =>
                    threads[t].resp = ErrorResponse(400, "Book is already borrowed.")
        /\ \E t \in Threads : threads[t].resp.status = 200
        /\ \A t \in Threads : books[threads[t].b.n].is_borrowed
        /\ Cardinality(Keys(borrowed_books)) = Len(borrowed_books)
        /\ \E t \in Threads :
              /\ threads[t].resp.status = 200
              /\ \E i \in 1..Len(borrowed_books) :
                    borrowed_books[i] = <<threads[t].b.n, threads[t].a.n>>

\* Two different users asked for the same book at once and both were answered 200.
C15_Witness ==
    /\ SameBookRaceDone
    /\ \A t \in Threads : threads[t].resp.status = 200 /\ threads[t].before = {}
    /\ \E t, o \in Threads : threads[t].a # threads[o].a

\* Both racing requests are registrations of the same kind with valid input,
\* and both have answered.
SameKindRaceDone ==
    /\ \A t \in Threads :
          /\ threads[t].op \in {"RegisterBook", "RegisterUser"}
          /\ threads[t].pc = "done"
          /\ threads[t].resp.status = 201
    /\ \A t, o \in Threads : threads[t].op = threads[o].op

\* The record a finished registration returned.
Returned(t) == threads[t].resp.data[1]

\* C16 (as claimed): two interleaved registrations of the same kind return
\* distinct ids, and both records are stored afterwards.
C16_RacingIdsDistinct ==
    SameKindRaceDone =>
        /\ \A t, o \in Threads : t # o => Returned(t).id # Returned(o).id
        /\ \A t \in Threads :
              \E k \in DOMAIN DictOf(threads[t].op) :
                  DictOf(threads[t].op)[k] = Returned(t)

\* C16 (amended): two interleaved registrations of the same kind return
\* distinct ids exactly when one of them built its record after the other had
\* finished incrementing the counter, and then each record is stored under its
\* own id; when both build before either has finished the increment they
\* return the same id.
C16_RacingIdsDistinctIffSerial ==
    SameKindRaceDone =>
        /\ (\A t, o \in Threads : t # o => Returned(t).id # Returned(o).id)
              <=> (\E t \in Threads : threads[t].before # {})
        /\ (\E t \in Threads : threads[t].before # {}) =>
              \A t \in Threads :
                  /\ Returned(t).id \in DOMAIN DictOf(threads[t].op)
                  /\ DictOf(threads[t].op)[Returned(t).id] = Returned(t)

\* Two books with different titles were registered at once, both were
\* answered 201 with the same id, and only one record is stored.
C16_Witness ==
    /\ SameKindRaceDone
    /\ \A t \in Threads : threads[t].op = "RegisterBook" /\ threads[t].before = {}
    /\ \E t, o \in Threads :
          /\ Returned(t).id = Returned(o).id
          /\ Returned(t).title # Returned(o).title
    /\ Cardinality(DOMAIN books) = 1

====
